---- MODULE Spec2Model ----
(***************************************************************************)
(* A model of maze-3d: the seeded maze generator (utils/mazeGenerator.ts)  *)
(* and the first-person controller's collision and movement resolution     *)
(* (components/FirstPersonController.tsx).                                  *)
(*                                                                         *)
(* Numbers.  A JavaScript number that the code pushes through 32-bit       *)
(* operators is kept as a pair <<hi, lo>> standing for hi * 65536 + lo     *)
(* with lo in 0..65535; hi is any integer until ToInt32 or ToUint32 wraps  *)
(* it.  World coordinates are kept in tenths of a world unit.              *)
(***************************************************************************)
EXTENDS Integers, Sequences, FiniteSets, TLC

VARIABLES dims, gen, maze, pos, ticked, ctl, out, view

vars == <<dims, gen, maze, pos, ticked, ctl, out, view>>

(***************************************************************************)
(* Bounds of the model.                                                    *)
(***************************************************************************)
\* the largest width and height handed to the generator's constructor
MaxDim == 5
\* the largest width and height of the maze the player walks in
MoveDim == 2
\* how far outside the maze (in tenths) a loaded position may lie
Margin == 4
\* the largest pitch and yaw (in thousandths of a radian) the look reaches
MaxPitch == 40
MaxYaw == 32

Instances == 1..2

\* width and height arguments: valid ones, zero and a negative one
DimArgs == {0 - 1} \cup (0..MaxDim)

\* seed arguments of the constructor: <<>> is a call without a seed, <<s>> one
\* with the seed s
SeedArgs == {<<>>, <<0>>, <<42>>, <<0 - 7>>, <<2147483647>>}

\* values Math.floor(Math.random() * 1000000) can produce (any of 0..999999)
RandomSeeds == {0, 42, 999999}

(***************************************************************************)
(* 32-bit arithmetic of seededRandom.                                      *)
(***************************************************************************)
Half == 65536

\* a plain integer within the 32-bit range as a pair
Wide(n) == <<n \div Half, n % Half>>

\* x & 65535
And65535(a) == a[2]

SignedHalf(h) == IF h % Half >= 32768 THEN (h % Half) - Half ELSE h % Half

\* the conversion every bitwise operator applies to its operands
ToInt32(a) == <<SignedHalf(a[1]), a[2]>>

\* x >> 16 (sign-propagating), as a plain integer
Sar16(a) == ToInt32(a)[1]

\* x << 16, a signed 32-bit value
Shl16(a) == <<SignedHalf(a[2]), 0>>

\* x >>> 0
ToUint32(a) == <<a[1] % Half, a[2]>>

\* k * lo + s for a 16-bit lo, exact (the product passes 2^31)
MulAdd(k, lo, s) ==
    LET A == k * (lo \div 256)
        B == k * (lo % 256)
        T == (A % 256) * 256 + B + s
    IN  <<(A \div 256) + (T \div Half), T % Half>>

\* (k * (x & 65535) + (x >> 16)) & mask, mask = 0xffffffff
Mwc(k, a) == ToInt32(MulAdd(k, And65535(ToInt32(a)), Sar16(a)))

\* the state <<m_z, m_w>> after "Apply seed"
seededRandom(seed) == <<Mwc(36969, Wide(seed)), Mwc(18000, Wide(seed))>>

\* the state after one call of the returned closure
randomStep(rng) == <<Mwc(36969, rng[1]), Mwc(18000, rng[2])>>

\* randomResult without the >>> 0: the signed sum is divided as it stands
randomResultSigned(rng) ==
    LET s == randomStep(rng)
    IN  <<Shl16(s[1])[1], And65535(s[2])>>

\* the 32-bit numerator of the value that call returns (result * 4294967296)
randomResult(rng) ==
    LET s == randomStep(rng)
        sum == <<Shl16(s[1])[1], And65535(s[2])>>
    IN  ToUint32(sum)

\* Math.floor(r * n) for r = numerator / 4294967296
FloorTimes(num, n) == (num[1] * n + ((num[2] * n) \div Half)) \div Half

(***************************************************************************)
(* The generator's grid.                                                   *)
(***************************************************************************)
Cells(w, h) == (0..(w - 1)) \X (0..(h - 1))

NewCell == [north |-> TRUE, south |-> TRUE, east |-> TRUE, west |-> TRUE,
            visited |-> FALSE]

initializeGrid(w, h) == [c \in Cells(w, h) |-> NewCell]

\* the candidates in the order west, east, north, south, then the filter
getNeighbors(g, c) ==
    LET x == c[1]
        z == c[2]
        cand == (IF x > 0 THEN <<(<<x - 1, z>>)>> ELSE <<>>)
             \o (IF x < g.width - 1 THEN <<(<<x + 1, z>>)>> ELSE <<>>)
             \o (IF z > 0 THEN <<(<<x, z - 1>>)>> ELSE <<>>)
             \o (IF z < g.height - 1 THEN <<(<<x, z + 1>>)>> ELSE <<>>)
        unvisited(n) == ~g.grid[n].visited
    IN  SelectSeq(cand, unvisited)

\* removeWall that clears only the current cell's side
removeWallOneSided(grid, cur, nb) ==
    LET dx == cur[1] - nb[1]
        dz == cur[2] - nb[2]
    IN  IF dx = 1 THEN [grid EXCEPT ![cur].west = FALSE]
        ELSE IF dx = 0 - 1 THEN [grid EXCEPT ![cur].east = FALSE]
        ELSE IF dz = 1 THEN [grid EXCEPT ![cur].north = FALSE]
        ELSE IF dz = 0 - 1 THEN [grid EXCEPT ![cur].south = FALSE]
        ELSE grid

\* removeWall whose last branch (the neighbour to the south) is missing
removeWallNoSouth(grid, cur, nb) ==
    LET dx == cur[1] - nb[1]
        dz == cur[2] - nb[2]
    IN  IF dx = 1 THEN [grid EXCEPT ![cur].west = FALSE, ![nb].east = FALSE]
        ELSE IF dx = 0 - 1 THEN [grid EXCEPT ![cur].east = FALSE, ![nb].west = FALSE]
        ELSE IF dz = 1 THEN [grid EXCEPT ![cur].north = FALSE, ![nb].south = FALSE]
        ELSE grid

\* removeWall with the two cells' sides exchanged: the current cell loses the
\* wall that faces away from the neighbour
removeWallSwapped(grid, cur, nb) ==
    LET dx == cur[1] - nb[1]
        dz == cur[2] - nb[2]
    IN  IF dx = 1 THEN [grid EXCEPT ![cur].east = FALSE, ![nb].west = FALSE]
        ELSE IF dx = 0 - 1 THEN [grid EXCEPT ![cur].west = FALSE, ![nb].east = FALSE]
        ELSE IF dz = 1 THEN [grid EXCEPT ![cur].south = FALSE, ![nb].north = FALSE]
        ELSE IF dz = 0 - 1 THEN [grid EXCEPT ![cur].north = FALSE, ![nb].south = FALSE]
        ELSE grid

removeWall(grid, cur, nb) ==
    LET dx == cur[1] - nb[1]
        dz == cur[2] - nb[2]
    IN  IF dx = 1 THEN [grid EXCEPT ![cur].west = FALSE, ![nb].east = FALSE]
        ELSE IF dx = 0 - 1 THEN [grid EXCEPT ![cur].east = FALSE, ![nb].west = FALSE]
        ELSE IF dz = 1 THEN [grid EXCEPT ![cur].north = FALSE, ![nb].south = FALSE]
        ELSE IF dz = 0 - 1 THEN [grid EXCEPT ![cur].south = FALSE, ![nb].north = FALSE]
        ELSE grid

(***************************************************************************)
(* MazeGenerator: one record per instance.                                 *)
(*   phase    "none" (not constructed), "constructed", "generating" (in    *)
(*            the loop of generate), "generated", "threw" (generate ended  *)
(*            with a TypeError)                                            *)
(*   seedArg  the constructor's seed argument, kept for the record         *)
(*   seed, rng, grid, width, height   the instance's fields                *)
(*   stack, cur   the locals stack and currentCell of generate             *)
(*   num, n, idx  the last draw's numerator, the length it was scaled by   *)
(*            and the index Math.floor gave                                *)
(*   draws    how many values the instance's stream has produced           *)
(*   start    <<>> until getStartPosition has returned <<x, z>>            *)
(***************************************************************************)
NoGenerator ==
    [phase |-> "none", width |-> 0, height |-> 0, seedArg |-> <<>>, seed |-> 0,
     rng |-> <<(<<0, 0>>), (<<0, 0>>)>>, grid |-> initializeGrid(0, 0),
     stack |-> <<>>, cur |-> <<0, 0>>, num |-> <<0, 0>>, n |-> 1, idx |-> 0,
     draws |-> 0, start |-> <<>>]

\* seed || Math.floor(Math.random() * 1000000): 0 (and NaN) count as no seed
storedSeed(arg, r) == IF arg = <<>> \/ arg[1] = 0 THEN r ELSE arg[1]

\* the constructor seeding the stream from its argument (undefined & 65535
\* is 0) and not from the stored seed
constructorSeedsFromArg(w, h, arg, r) ==
    [NoGenerator EXCEPT !.phase = "constructed", !.width = w, !.height = h,
                        !.seedArg = arg, !.seed = storedSeed(arg, r),
                        !.rng = seededRandom(IF arg = <<>> THEN 0 ELSE arg[1]),
                        !.grid = initializeGrid(w, h)]

\* new MazeGenerator(w, h, arg); r is what Math.random would give
constructor(w, h, arg, r) ==
    [NoGenerator EXCEPT !.phase = "constructed", !.width = w, !.height = h,
                        !.seedArg = arg, !.seed = storedSeed(arg, r),
                        !.rng = seededRandom(storedSeed(arg, r)),
                        !.grid = initializeGrid(w, h)]

\* generate() up to the loop: grid[0][0] is read and marked visited.  With
\* width <= 0 grid[0] is undefined, with height <= 0 grid[0][0] is: either
\* way a TypeError leaves generate
generateEnter(g) ==
    IF g.width <= 0 \/ g.height <= 0
    THEN [g EXCEPT !.phase = "threw"]
    ELSE [g EXCEPT !.phase = "generating", !.stack = <<>>, !.cur = <<0, 0>>,
                   !.grid[<<0, 0>>].visited = TRUE]

\* the branch with neighbours without next.visited = true
carveNoMark(g) ==
    LET nb  == getNeighbors(g, g.cur)
        num == randomResult(g.rng)
        k   == FloorTimes(num, Len(nb))
        drawn == [g EXCEPT !.rng = randomStep(g.rng), !.num = num,
                           !.n = Len(nb), !.idx = k, !.draws = g.draws + 1]
    IN  IF k \notin 0..(Len(nb) - 1)
        THEN [drawn EXCEPT !.phase = "threw", !.stack = Append(g.stack, g.cur)]
        ELSE [drawn EXCEPT !.stack = Append(g.stack, g.cur),
                           !.grid = removeWall(g.grid, g.cur, nb[k + 1]),
                           !.cur = nb[k + 1]]

\* the branch with neighbours: one draw, the wall removed, the move
carve(g) ==
    LET nb  == getNeighbors(g, g.cur)
        num == randomResult(g.rng)
        k   == FloorTimes(num, Len(nb))
        drawn == [g EXCEPT !.rng = randomStep(g.rng), !.num = num,
                           !.n = Len(nb), !.idx = k, !.draws = g.draws + 1]
    IN  IF k \notin 0..(Len(nb) - 1)
        THEN \* neighbors[k] is undefined and removeWall reads its x
             [drawn EXCEPT !.phase = "threw", !.stack = Append(g.stack, g.cur)]
        ELSE [drawn EXCEPT !.stack = Append(g.stack, g.cur),
                           !.grid = [removeWall(g.grid, g.cur, nb[k + 1])
                                        EXCEPT ![nb[k + 1]].visited = TRUE],
                           !.cur = nb[k + 1]]

\* backtrack reading the top of the stack without popping it
backtrackNoPop(g) == [g EXCEPT !.cur = g.stack[Len(g.stack)]]

\* the branch without neighbours and with a stack: stack.pop()
backtrack(g) ==
    [g EXCEPT !.cur = g.stack[Len(g.stack)],
              !.stack = SubSeq(g.stack, 1, Len(g.stack) - 1)]

\* the last branch: break, return this.grid
finish(g) == [g EXCEPT !.phase = "generated"]

\* a loop that leaves at the first cell without unvisited neighbours
loopBodyNoBacktrack(g) ==
    IF Len(getNeighbors(g, g.cur)) > 0 THEN carve(g) ELSE finish(g)

\* one iteration of while (true)
loopBody(g) ==
    IF Len(getNeighbors(g, g.cur)) > 0 THEN carve(g)
    ELSE IF Len(g.stack) > 0 THEN backtrack(g)
    ELSE finish(g)

RECURSIVE loop(_)
loop(g) == IF g.phase = "generating" THEN loop(loopBody(g)) ELSE g

\* generate() as one call
generate(g) == loop(generateEnter(g))

(***************************************************************************)
(* getStartPosition.                                                       *)
(***************************************************************************)
wallCount(cell) ==
    (IF cell.north THEN 1 ELSE 0) + (IF cell.south THEN 1 ELSE 0)
    + (IF cell.east THEN 1 ELSE 0) + (IF cell.west THEN 1 ELSE 0)

\* the cells the two loops visit, x ascending and z ascending within x
interiorScan(g) ==
    LET iw == IF g.width > 2 THEN g.width - 2 ELSE 0
        ih == IF g.height > 2 THEN g.height - 2 ELSE 0
    IN  [k \in 1..(iw * ih) |-> <<1 + ((k - 1) \div ih), 1 + ((k - 1) % ih)>>]

\* the candidates as they are before the sort and the filter: every interior
\* cell with at most 2 walls
topCandidatesAnyOpen(g) ==
    LET open(c) == wallCount(g.grid[c]) <= 2
    IN  SelectSeq(interiorScan(g), open)

\* candidates, then the stable sort by wallCount and the filter on the first
\* one's count: the candidates of least count, still in scan order
topCandidates(g) ==
    LET open(c) == wallCount(g.grid[c]) <= 2
        cand == SelectSeq(interiorScan(g), open)
        least(c) == \A j \in 1..Len(cand) :
                       wallCount(g.grid[c]) <= wallCount(g.grid[cand[j]])
    IN  SelectSeq(cand, least)

\* the centre of a cell in world units (x * 4 + 2)
cellCentre(c) == <<c[1] * 4 + 2, c[2] * 4 + 2>>

getStartPosition(g) ==
    LET top == topCandidates(g)
        num == randomResult(g.rng)
        k   == FloorTimes(num, Len(top))
    IN  IF Len(top) > 0
        THEN [g EXCEPT !.rng = randomStep(g.rng), !.num = num, !.n = Len(top),
                       !.idx = k, !.draws = g.draws + 1,
                       !.start = cellCentre(top[k + 1])]
        ELSE [g EXCEPT !.start = <<2, 2>>]

(***************************************************************************)
(* The state outside the generators.                                       *)
(*   ctl   the refs of FirstPersonController: moveState (forward,          *)
(*         backward, left, right), rotationState (rotateLeft,              *)
(*         rotateRight), mouseState.isPointerLocked, levelingState         *)
(*         (isLeveling, targetX) and the camera's orientation as euler     *)
(*         reads it back (pitch = euler.x, yaw = euler.y).  Angles are in  *)
(*         thousandths of a radian, times in milliseconds.                 *)
(*   out   the callbacks the last handler of the controller called         *)
(*   view  the application's seed and what the scene builder (Maze3D) and  *)
(*         the ASCII view (printMazeASCII) have made of the doors; with    *)
(*         it what the application shares with the browser: url (the       *)
(*         seed parameter and the hash of window.location), storage        *)
(*         (localStorage's maze3d_data), writable (whether              *)
(*         localStorage.setItem returns rather than throws), calls (the    *)
(*         door API calls that are pending, each with the mazeData of its  *)
(*         handler and with whether the API is going to fail it), logged   *)
(*         (whether the console holds an error of handleDoorCollision's    *)
(*         catch), mock (VITE_USE_MOCK_DOOR_API) and epoch, which a page   *)
(*         load flips                                                      *)
(***************************************************************************)
AtRest ==
    [forward |-> FALSE, backward |-> FALSE, left |-> FALSE, right |-> FALSE,
     rotateLeft |-> FALSE, rotateRight |-> FALSE,
     isPointerLocked |-> FALSE, isLeveling |-> FALSE, targetX |-> 0,
     pitch |-> 0, yaw |-> 0]

NoCalls == [door |-> FALSE, position |-> FALSE, rotation |-> FALSE]

\* what one consumer of the door placement has produced: whether it ran, the
\* door-bearing walls <<x, z, direction>>, the draws it took from its stream
\* and whether it ended by raising a TypeError
NotBuilt == [built |-> FALSE, doors |-> {}, draws |-> 0, raised |-> FALSE]

\* the URL of the application without seed parameter and without hash; an
\* absent part is <<>>, a present one <<value>>
BaseUrl == [seedParam |-> <<>>, hash |-> <<>>]

\* seed is the application's seed, the one Maze3D and printMazeASCII are given
NoView ==
    [seed |-> 0, scene |-> NotBuilt, ascii |-> NotBuilt,
     url |-> BaseUrl, storage |-> <<>>, writable |-> TRUE, calls |-> <<>>,
     logged |-> FALSE, mock |-> TRUE, epoch |-> 0]

(***************************************************************************)
(* The generator's specification.  The application constructs its          *)
(* generators with one width and one height (App passes 25, 25), and one   *)
(* after the other: the generator of the startup hook has returned its     *)
(* start position before the maze hook constructs its own.  A call of      *)
(* generate runs to its end before any other call starts.                  *)
(***************************************************************************)
Idle == [x |-> 0, y |-> 0, z |-> 0]

InitGen ==
    /\ dims \in DimArgs \X DimArgs
    /\ gen = [i \in Instances |-> NoGenerator]
    /\ maze = initializeGrid(0, 0)
    /\ pos = Idle
    /\ ticked = FALSE
    /\ ctl = AtRest
    /\ out = NoCalls
    /\ view = NoView

\* the calls on generator g are over
Over(g) == g.phase = "threw" \/ g.start # <<>>

Construct(i) ==
    /\ gen[i].phase = "none"
    /\ \A j \in Instances : j < i => Over(gen[j])
    /\ \E arg \in SeedArgs, r \in RandomSeeds :
          gen' = [gen EXCEPT ![i] = constructor(dims[1], dims[2], arg, r)]
    /\ UNCHANGED <<dims, maze, pos, ticked, ctl, out, view>>

GenerateBegin(i) ==
    /\ gen[i].phase = "constructed"
    /\ gen[i].width > 0 /\ gen[i].height > 0
    /\ gen' = [gen EXCEPT ![i] = generateEnter(gen[i])]
    /\ UNCHANGED <<dims, maze, pos, ticked, ctl, out, view>>

GenerateThrow(i) ==
    /\ gen[i].phase = "constructed"
    /\ ~(gen[i].width > 0 /\ gen[i].height > 0)
    /\ gen' = [gen EXCEPT ![i] = generateEnter(gen[i])]
    /\ UNCHANGED <<dims, maze, pos, ticked, ctl, out, view>>

Carve(i) ==
    /\ gen[i].phase = "generating"
    /\ Len(getNeighbors(gen[i], gen[i].cur)) > 0
    /\ gen' = [gen EXCEPT ![i] = loopBody(gen[i])]
    /\ UNCHANGED <<dims, maze, pos, ticked, ctl, out, view>>

Backtrack(i) ==
    /\ gen[i].phase = "generating"
    /\ Len(getNeighbors(gen[i], gen[i].cur)) = 0
    /\ Len(gen[i].stack) > 0
    /\ gen' = [gen EXCEPT ![i] = loopBody(gen[i])]
    /\ UNCHANGED <<dims, maze, pos, ticked, ctl, out, view>>

Finish(i) ==
    /\ gen[i].phase = "generating"
    /\ Len(getNeighbors(gen[i], gen[i].cur)) = 0
    /\ Len(gen[i].stack) = 0
    /\ gen' = [gen EXCEPT ![i] = loopBody(gen[i])]
    /\ UNCHANGED <<dims, maze, pos, ticked, ctl, out, view>>

GetStart(i) ==
    /\ gen[i].phase = "generated"
    /\ gen[i].start = <<>>
    /\ gen' = [gen EXCEPT ![i] = getStartPosition(gen[i])]
    /\ UNCHANGED <<dims, maze, pos, ticked, ctl, out, view>>

NextGen ==
    \E i \in Instances :
        \/ Construct(i)
        \/ GenerateBegin(i)
        \/ GenerateThrow(i)
        \/ Carve(i)
        \/ Backtrack(i)
        \/ Finish(i)
        \/ GetStart(i)

Spec == InitGen /\ [][NextGen]_vars

\* one generator's calls.  generate is a synchronous loop: once entered, its
\* iterations keep coming
LoopStep(i) == Carve(i) \/ Backtrack(i) \/ Finish(i)

NextOne ==
    \/ Construct(1)
    \/ GenerateBegin(1)
    \/ GenerateThrow(1)
    \/ LoopStep(1)
    \/ GetStart(1)

FairSpec == InitGen /\ [][NextOne]_vars /\ WF_vars(LoopStep(1))

(***************************************************************************)
(* FirstPersonController: collision and the movement of one frame.         *)
(* Positions and steps are in tenths of a world unit.  maze is the grid    *)
(* the controller is given, dims its width and height (maze.length and     *)
(* maze[0].length), pos is currentPosition; ticked tells whether a frame   *)
(* has run since the position was loaded.                                  *)
(***************************************************************************)
\* cellSize = 4
CellSize == 40
\* buffer = 0.3
Buffer == 3
\* the eye height the application starts the player at (1.7)
EyeHeight == 17

\* checkCollision whose bounds test lets the index maze.length through
checkCollisionOffByOne(p) ==
    LET mazeX == p.x \div CellSize
        mazeZ == p.z \div CellSize
    IN  IF mazeX < 0 \/ mazeX > dims[1] \/ mazeZ < 0 \/ mazeZ > dims[2]
        THEN TRUE
        ELSE IF <<mazeX, mazeZ>> \notin DOMAIN maze
        THEN FALSE
        ELSE LET cell == maze[<<mazeX, mazeZ>>]
                 localX == p.x - mazeX * CellSize
                 localZ == p.z - mazeZ * CellSize
             IN  \/ cell.north /\ localZ < Buffer
                 \/ cell.south /\ localZ > CellSize - Buffer
                 \/ cell.west /\ localX < Buffer
                 \/ cell.east /\ localX > CellSize - Buffer

checkCollision(p) ==
    LET mazeX == p.x \div CellSize
        mazeZ == p.z \div CellSize
    IN  IF mazeX < 0 \/ mazeX >= dims[1] \/ mazeZ < 0 \/ mazeZ >= dims[2]
        THEN TRUE
        ELSE LET cell == maze[<<mazeX, mazeZ>>]
                 localX == p.x - mazeX * CellSize
                 localZ == p.z - mazeZ * CellSize
             IN  \/ cell.north /\ localZ < Buffer
                 \/ cell.south /\ localZ > CellSize - Buffer
                 \/ cell.west /\ localX < Buffer
                 \/ cell.east /\ localX > CellSize - Buffer

\* resolveMove whose X commit copies newPosition whole
resolveMoveCommitsBoth(p, v) ==
    LET newX == p.x + v[1]
        newZ == p.z + v[2]
        afterX == IF ~checkCollision([p EXCEPT !.x = newX])
                  THEN [p EXCEPT !.x = newX, !.z = newZ] ELSE p
    IN  IF ~checkCollision([afterX EXCEPT !.z = newZ])
        THEN [afterX EXCEPT !.z = newZ] ELSE afterX

\* resolveMove whose Z test is made at the x the frame began with
resolveMoveTestsZAtOldX(p, v) ==
    LET newX == p.x + v[1]
        newZ == p.z + v[2]
        afterX == IF ~checkCollision([p EXCEPT !.x = newX])
                  THEN [p EXCEPT !.x = newX] ELSE p
    IN  IF ~checkCollision([p EXCEPT !.z = newZ])
        THEN [afterX EXCEPT !.z = newZ] ELSE afterX

\* resolveMove whose Z test takes newPosition's x, committed or not
resolveMoveTestsDiagonal(p, v) ==
    LET newX == p.x + v[1]
        newZ == p.z + v[2]
        afterX == IF ~checkCollision([p EXCEPT !.x = newX])
                  THEN [p EXCEPT !.x = newX] ELSE p
    IN  IF ~checkCollision([p EXCEPT !.x = newX, !.z = newZ])
        THEN [afterX EXCEPT !.z = newZ] ELSE afterX

\* the X test and commit, then the Z test (on the position the X commit
\* left) and commit
resolveMove(p, v) ==
    LET newX == p.x + v[1]
        newZ == p.z + v[2]
        afterX == IF ~checkCollision([p EXCEPT !.x = newX])
                  THEN [p EXCEPT !.x = newX] ELSE p
    IN  IF ~checkCollision([afterX EXCEPT !.z = newZ])
        THEN [afterX EXCEPT !.z = newZ] ELSE afterX

\* the velocity of a frame: zero without a movement key, else a vector of
\* length moveSpeed * delta (5 * delta) in the direction the keys and the
\* camera give.  Per axis: no step, a step of 0.1 and one of 0.7
Steps == {0 - 7, 0 - 1, 0, 1, 7}
Velocities == Steps \X Steps

\* the seeds of the mazes the player walks in
MoveSeeds == {42, 0 - 7}

\* the positions a session can start from: the generator's start position,
\* or whatever position a stored or hash-encoded state holds, inside the
\* maze or not, clear of the walls or not.  Every third tenth along each
\* axis is taken, which falls on different offsets in different cells
Loaded(n) == {c \in (0 - Margin)..(n * CellSize + Margin - 1) : c % 3 = 0}

Positions(w, h) == [x : Loaded(w), y : {EyeHeight}, z : Loaded(h)]

\* the movement keys held while the frames of the scenario's walk run: none,
\* forward, and forward with backward
HeldAtLoad ==
    {AtRest, [AtRest EXCEPT !.forward = TRUE],
     [AtRest EXCEPT !.forward = TRUE, !.backward = TRUE]}

\* the mazes walked in: the single cell, the column and the square of MoveDim
MoveDims == {<<1, 1>>, <<1, MoveDim>>, <<MoveDim, MoveDim>>}

InitMove ==
    /\ dims \in MoveDims
    /\ gen = [i \in Instances |-> NoGenerator]
    /\ \E s \in MoveSeeds :
          maze = generate(constructor(dims[1], dims[2], <<s>>, 0)).grid
    /\ pos \in Positions(dims[1], dims[2])
    /\ ticked = FALSE
    /\ ctl = [AtRest EXCEPT !.forward = TRUE]
    /\ out = NoCalls
    /\ view = NoView

\* the frame times (delta) the renderer hands to useFrame, in ms
Deltas == {8, 16}

\* mouseState.sensitivity = 0.002 (radians per pixel)
Sensitivity == 2
\* levelingState.levelingSpeed = 2.0 (radians per second)
LevelingSpeed == 2
\* rotationSpeed = 2.0 (radians per second)
RotationSpeed == 2
\* absDeltaX < 0.01
SnapBelow == 10
\* Math.PI / 2, to the thousandth
HalfPi == 1571

Abs(n) == IF n < 0 THEN 0 - n ELSE n
Sign(n) == IF n > 0 THEN 1 ELSE IF n < 0 THEN 0 - 1 ELSE 0
Min2(a, b) == IF a < b THEN a ELSE b
Max2(a, b) == IF a > b THEN a ELSE b

\* the ref a key code sets; a code without a case sets none
keyField(code) ==
    CASE code \in {"KeyW", "ArrowUp"} -> "forward"
      [] code \in {"KeyS", "ArrowDown"} -> "backward"
      [] code = "KeyA" -> "left"
      [] code = "KeyD" -> "right"
      [] code = "ArrowLeft" -> "rotateLeft"
      [] code = "ArrowRight" -> "rotateRight"
      [] OTHER -> "none"

setKey(c, code, held) ==
    IF keyField(code) = "none" THEN c ELSE [c EXCEPT ![keyField(code)] = held]

MoveCodes == {"KeyW", "ArrowUp", "KeyS", "ArrowDown", "KeyA", "KeyD"}
TurnCodes == {"ArrowLeft", "ArrowRight"}

\* handleKeyDown
KeyDown(code) ==
    /\ ctl' = setKey(ctl, code, TRUE)
    /\ out' = NoCalls
    /\ UNCHANGED <<dims, gen, maze, pos, ticked, view>>

\* handleKeyUp
KeyUp(code) ==
    /\ ctl' = setKey(ctl, code, FALSE)
    /\ out' = NoCalls
    /\ UNCHANGED <<dims, gen, maze, pos, ticked, view>>

\* the orientation after a mouse movement of (mx, my) pixels under pointer lock
mouseLook(c, mx, my) ==
    [c EXCEPT !.yaw = c.yaw - mx * Sensitivity,
              !.pitch = Max2(0 - HalfPi,
                             Min2(HalfPi, c.pitch - my * Sensitivity))]

\* handleMouseMove: nothing without pointer lock
MouseMove(mx, my) ==
    /\ Abs(mouseLook(ctl, mx, my).yaw) <= MaxYaw
    /\ Abs(mouseLook(ctl, mx, my).pitch) <= MaxPitch
    /\ IF ~ctl.isPointerLocked
       THEN ctl' = ctl /\ out' = NoCalls
       ELSE /\ ctl' = mouseLook(ctl, mx, my)
            /\ out' = [NoCalls EXCEPT !.rotation = TRUE]
    /\ UNCHANGED <<dims, gen, maze, pos, ticked, view>>

\* handlePointerLockChange; now is document.pointerLockElement === document.body
pointerLockChange(c, now) ==
    IF c.isPointerLocked /\ ~now
    THEN [c EXCEPT !.isPointerLocked = now, !.isLeveling = TRUE, !.targetX = 0]
    ELSE [c EXCEPT !.isPointerLocked = now]

PointerLockChange(now) ==
    /\ ctl' = pointerLockChange(ctl, now)
    /\ out' = NoCalls
    /\ UNCHANGED <<dims, gen, maze, pos, ticked, view>>

\* the leveling branch of useFrame
leveling(c, dt) ==
    LET deltaX == c.targetX - c.pitch
        absDeltaX == Abs(deltaX)
    IN  IF absDeltaX < SnapBelow
        THEN [c EXCEPT !.pitch = c.targetX, !.isLeveling = FALSE]
        ELSE [c EXCEPT !.pitch = c.pitch + Sign(deltaX)
                                   * Min2(absDeltaX, LevelingSpeed * dt)]

\* the keyboard rotation branch of useFrame
keyboardRotation(c, dt) ==
    [c EXCEPT !.yaw = c.yaw + (IF c.rotateLeft THEN RotationSpeed * dt ELSE 0)
                            - (IF c.rotateRight THEN RotationSpeed * dt ELSE 0)]

\* the orientation part of useFrame with the keyboard rotation in an if of its
\* own instead of the else branch: it is applied in leveling frames as well
lookStepTurnsWhileLeveling(c, dt) ==
    LET levelled == IF c.isLeveling THEN leveling(c, dt) ELSE c
    IN  IF c.rotateLeft \/ c.rotateRight THEN keyboardRotation(levelled, dt)
        ELSE levelled

\* the orientation part of useFrame: leveling, else keyboard rotation
lookStep(c, dt) ==
    IF c.isLeveling THEN leveling(c, dt)
    ELSE IF c.rotateLeft \/ c.rotateRight THEN keyboardRotation(c, dt)
    ELSE c

\* whether that part calls onRotationChange
lookReports(c) == c.isLeveling \/ c.rotateLeft \/ c.rotateRight

\* velocity.length() > 0: direction and right are unit vectors at right
\* angles (the pitch stays clear of the vertical), so the sum of the held
\* keys' vectors is zero exactly when forward cancels backward and left right
hasVelocity(c) == ~(c.forward = c.backward /\ c.left = c.right)

\* useFrame without the return after onDoorCollision: the axis tests and the
\* position report follow the door callback
FrameNoReturn(dt, v, hit) ==
    /\ (v # <<0, 0>>) <=> hasVelocity(ctl)
    /\ Abs(lookStep(ctl, dt).yaw) <= MaxYaw
    /\ ctl' = lookStep(ctl, dt)
    /\ pos' = resolveMove(pos, v)
    /\ out' = [door |-> v # <<0, 0>> /\ hit, position |-> TRUE,
               rotation |-> lookReports(ctl)]
    /\ ticked' = TRUE
    /\ UNCHANGED <<dims, gen, maze, view>>

\* useFrame with the frame time dt, the velocity v the keys, the camera and
\* dt give, and hit: the camera has a parent and the ray along the camera's
\* direction meets, among the parent's descendants, an object with
\* userData.isDoor closer than 1.0.  The application passes onDoorCollision,
\* onPositionChange and onRotationChange
controllerFrame(dt, v, hit) ==
    /\ (v # <<0, 0>>) <=> hasVelocity(ctl)
    /\ Abs(lookStep(ctl, dt).yaw) <= MaxYaw
    /\ ctl' = lookStep(ctl, dt)
    /\ IF v # <<0, 0>> /\ hit
       THEN /\ pos' = pos
            /\ out' = [door |-> TRUE, position |-> FALSE,
                       rotation |-> lookReports(ctl)]
       ELSE /\ pos' = resolveMove(pos, v)
            /\ out' = [door |-> FALSE, position |-> TRUE,
                       rotation |-> lookReports(ctl)]
    /\ ticked' = TRUE

\* useFrame in a controller whose onDoorCollision leaves the application's
\* state alone
Frame(dt, v, hit) ==
    /\ controllerFrame(dt, v, hit)
    /\ UNCHANGED <<dims, gen, maze, view>>

\* with the orientation at rest the frame time is not read
RestDelta == CHOOSE dt \in Deltas : TRUE

\* useFrame when no door is met: the two axis tests
FrameMove(v) == Frame(RestDelta, v, FALSE)

\* useFrame when a door is met: with a velocity onDoorCollision is called and
\* the frame returns before the axis tests.  The velocity counts for this
\* only as zero or not: the ones along z are taken
FrameDoor == \E v \in Velocities : v[1] = 0 /\ Frame(RestDelta, v, TRUE)

useFrame == (\E v \in Velocities : FrameMove(v)) \/ FrameDoor

NextMove == useFrame

SpecMove == InitMove /\ [][NextMove]_vars

\* the walk in the 3 x 4 maze of seed 42, whose cell (2, 2) has its north and
\* east walls and neither its south nor its west wall.  The player is loaded
\* in that cell, at the local offset (2.0, 0.1) or further in, and a frame's
\* step is 0.5 or nothing along each axis
ScenarioCell == <<2, 2>>

ScenarioVelocities == {0 - 5, 0, 5} \X {0 - 5, 0, 5}

InitScenario ==
    /\ dims = <<3, 4>>
    /\ gen = [i \in Instances |-> NoGenerator]
    /\ maze = generate(constructor(3, 4, <<42>>, 0)).grid
    /\ pos \in [x : {ScenarioCell[1] * CellSize + 20}, y : {EyeHeight},
                z : {ScenarioCell[2] * CellSize + 1,
                     ScenarioCell[2] * CellSize + 20}]
    /\ ticked = FALSE
    /\ ctl \in HeldAtLoad
    /\ out = NoCalls
    /\ view = NoView

NextScenario == (\E v \in ScenarioVelocities : FrameMove(v)) \/ FrameDoor

SpecScenario == InitScenario /\ [][NextScenario]_vars

(***************************************************************************)
(* Door placement: the walls hook of Maze3D and the door map of            *)
(* printMazeASCII.  Both hold their own copy of seededRandom, the same     *)
(* text as the generator's.                                                *)
(***************************************************************************)
\* random() < 0.1 for random() = num / 4294967296: 0.1 * 4294967296 is
\* 429496729.6, so num <= 429496729 = 6553 * 65536 + 39321
belowTenth(num) == num[1] < 6553 \/ (num[1] = 6553 /\ num[2] <= 39321)

\* if (cell.walls.<dir>) { hasDoor = random() < 0.1; ... }: st holds the
\* stream, the doors so far and the number of draws
wallTest(st, cell, c, dir) ==
    IF cell[dir]
    THEN [rng |-> randomStep(st.rng),
          doors |-> IF belowTenth(randomResult(st.rng))
                    THEN st.doors \cup {<<c[1], c[2], dir>>} ELSE st.doors,
          draws |-> st.draws + 1]
    ELSE st

FreshStream(seed) == [rng |-> seededRandom(seed), doors |-> {}, draws |-> 0]

\* the body of Maze3D's row.forEach((cell, z) => ...) with the walls taken in
\* the order east, west, north, south
sceneCellEastFirst(st, grid, c) ==
    wallTest(wallTest(wallTest(wallTest(st, grid[c], c, "east"),
                               grid[c], c, "west"),
                      grid[c], c, "north"),
             grid[c], c, "south")

\* the body of Maze3D's row.forEach((cell, z) => ...): north, south, east, west
sceneCell(st, grid, c) ==
    wallTest(wallTest(wallTest(wallTest(st, grid[c], c, "north"),
                               grid[c], c, "south"),
                      grid[c], c, "east"),
             grid[c], c, "west")

\* row.forEach from index z on, in the row x of length h (the comparison of
\* the draw counts always holds: it has each cell evaluated before the next)
RECURSIVE sceneRow(_, _, _, _, _)
sceneRow(st, grid, x, z, h) ==
    IF z >= h THEN st
    ELSE LET after == sceneCell(st, grid, <<x, z>>)
         IN  IF after.draws >= st.draws
             THEN sceneRow(after, grid, x, z + 1, h)
             ELSE st

\* maze.forEach from index x on
RECURSIVE sceneRows(_, _, _, _, _)
sceneRows(st, grid, x, w, h) ==
    IF x >= w THEN st
    ELSE LET after == sceneRow(st, grid, x, 0, h)
         IN  IF after.draws >= st.draws
             THEN sceneRows(after, grid, x + 1, w, h)
             ELSE st

\* Maze3D rendered on a grid of w rows of h cells: the walls hook, then the
\* floor hook, which reads maze[0].length (maze[0] is undefined when w = 0)
Maze3D(grid, w, h, seed) ==
    LET st == sceneRows(FreshStream(seed), grid, 0, w, h)
    IN  [built |-> TRUE, doors |-> st.doors, draws |-> st.draws,
         raised |-> w = 0]

\* the body of printMazeASCII's row.forEach with the east wall before the south
asciiCellEastFirst(st, grid, c) ==
    wallTest(wallTest(wallTest(wallTest(st, grid[c], c, "north"),
                               grid[c], c, "east"),
                      grid[c], c, "south"),
             grid[c], c, "west")

\* the body of printMazeASCII's row.forEach((cell, z) => ...)
asciiCell(st, grid, c) ==
    wallTest(wallTest(wallTest(wallTest(st, grid[c], c, "north"),
                               grid[c], c, "south"),
                      grid[c], c, "east"),
             grid[c], c, "west")

RECURSIVE asciiRow(_, _, _, _, _)
asciiRow(st, grid, x, z, h) ==
    IF z >= h THEN st
    ELSE LET after == asciiCell(st, grid, <<x, z>>)
         IN  IF after.draws >= st.draws
             THEN asciiRow(after, grid, x, z + 1, h)
             ELSE st

RECURSIVE asciiRows(_, _, _, _, _)
asciiRows(st, grid, x, w, h) ==
    IF x >= w THEN st
    ELSE LET after == asciiRow(st, grid, x, 0, h)
         IN  IF after.draws >= st.draws
             THEN asciiRows(after, grid, x + 1, w, h)
             ELSE st

\* printMazeASCII(maze): the door map, the light map (its loops test
\* x < maze.length before they read maze[0]), the top border, then the rows,
\* whose loop reads maze[0].length
printMazeASCII(grid, w, h, seed) ==
    LET st == asciiRows(FreshStream(seed), grid, 0, w, h)
    IN  [built |-> TRUE, doors |-> st.doors, draws |-> st.draws,
         raised |-> w = 0]

\* the seeds the application holds when the doors are placed
DoorSeeds == {0, 5, 42, 0 - 7, 999999}

\* the grid of a generator: the one generate() returned, or, for a width or
\* a height of 0 (where generate() only raises), the one the constructor built
gridOwner(w, h, s, r) ==
    IF w >= 1 /\ h >= 1 THEN generate(constructor(w, h, <<s>>, r))
    ELSE constructor(w, h, <<s>>, r)

\* Maze3D and printMazeASCII are handed a grid (dims is maze.length and the
\* rows' length) and the application's seed; the generator the grid came
\* from may or may not have been asked for a start position yet
InitDoors ==
    /\ dims \in (0..MaxDim) \X (0..MaxDim)
    /\ \E s \in DoorSeeds, r \in RandomSeeds :
          /\ gen = [i \in Instances |->
                      IF i = 1 THEN gridOwner(dims[1], dims[2], s, r)
                      ELSE NoGenerator]
          /\ view = [NoView EXCEPT !.seed = s]
    /\ maze = gen[1].grid
    /\ pos = Idle
    /\ ticked = FALSE
    /\ ctl = AtRest
    /\ out = NoCalls

\* Maze3D is rendered (again, when a dependency of its hooks has changed)
BuildScene ==
    /\ view' = [view EXCEPT !.scene = Maze3D(maze, dims[1], dims[2], view.seed)]
    /\ UNCHANGED <<dims, gen, maze, pos, ticked, ctl, out>>

\* window.secretToEverybody(): printMazeASCII(maze)
PrintAscii ==
    /\ view' = [view EXCEPT
                  !.ascii = printMazeASCII(maze, dims[1], dims[2], view.seed)]
    /\ UNCHANGED <<dims, gen, maze, pos, ticked, ctl, out>>

NextDoors == BuildScene \/ PrintAscii \/ GetStart(1)

SpecDoors == InitDoors /\ [][NextDoors]_vars

(***************************************************************************)
(* Looking around: the turn keys, the mouse under pointer lock, pointer    *)
(* lock taken and given up, and the frames in between, with no movement    *)
(* key held.                                                               *)
(***************************************************************************)
\* event.movementX and event.movementY, in pixels
LookPixelsX == {0 - 8, 0, 8}
LookPixelsY == {0 - 6, 0, 6}

InitLook ==
    /\ dims = <<MoveDim, MoveDim>>
    /\ gen = [i \in Instances |-> NoGenerator]
    /\ maze = generate(constructor(MoveDim, MoveDim, <<42>>, 0)).grid
    /\ pos = [x |-> 20, y |-> EyeHeight, z |-> 20]
    /\ ticked = FALSE
    /\ ctl = AtRest
    /\ out = NoCalls
    /\ view = NoView

\* a frame with no movement key held: the velocity is zero
FrameLook == \E dt \in Deltas : Frame(dt, <<0, 0>>, FALSE)

NextLook ==
    \/ \E code \in TurnCodes : KeyDown(code)
    \/ \E code \in TurnCodes : KeyUp(code)
    \/ \E mx \in LookPixelsX, my \in LookPixelsY : MouseMove(mx, my)
    \/ \E now \in BOOLEAN : PointerLockChange(now)
    \/ FrameLook

SpecLook == InitLook /\ [][NextLook]_vars

\* the render loop calls useFrame again and again
FairLook == SpecLook /\ WF_vars(FrameLook)

(***************************************************************************)
(* The application around the controller: the startup hook, the maze hook, *)
(* loadState, the hashchange handler, handleDoorCollision and the door     *)
(* API.  A page load runs the startup hook with fresh state (useState,     *)
(* useRef); a forced reload (setForceReload) runs it again in the mounted  *)
(* application, where playerPosition and the controller's currentPosition  *)
(* keep their values.                                                      *)
(***************************************************************************)
\* what a hash can hold: wellFormed tells whether atob and JSON.parse accept
\* it and the position and rotation fields are there with numbers in them
GoodHash ==
    [wellFormed |-> TRUE, seed |-> 5,
     position |-> [x |-> 13, y |-> EyeHeight, z |-> 20]]

HashStates ==
    {GoodHash, [GoodHash EXCEPT !.seed = 0], [GoodHash EXCEPT !.wellFormed = FALSE]}

\* the validation of the startup hook and of loadState: state.seed && ...
validHash(h) == h.wellFormed /\ h.seed # 0

\* what Math.floor(Math.random() * 1000000) gives the startup hook in the
\* application's runs
SessionRandoms == {999999}

\* the maze hook: new MazeGenerator(w, h, seed).generate().  The seeds of
\* these runs are not 0, so the generator's Math.random is not called
mazeHook(w, h, seed) == generate(constructor(w, h, <<seed>>, 0)).grid

\* new MazeGenerator(w, h, seed), generate(), getStartPosition(), and the
\* Vector3 made of it (in tenths)
startPosition(w, h, seed) ==
    LET start == getStartPosition(generate(constructor(w, h, <<seed>>, 0))).start
    IN  [x |-> start[1] * 10, y |-> EyeHeight, z |-> start[2] * 10]

\* the startup hook on the location and the storage of v; r is what its
\* Math.random gives.  An invalid hash is taken off the location
\* (replaceState); the hash branch and the seed branch clear the storage.
\* position is <<>> in the branches that ask the generator for the start
startup(v, r) ==
    LET hashOk == v.url.hash # <<>> /\ validHash(v.url.hash[1])
        url == IF hashOk THEN v.url ELSE [v.url EXCEPT !.hash = <<>>]
    IN  IF hashOk
        THEN [seed |-> v.url.hash[1].seed, position |-> <<v.url.hash[1].position>>,
              url |-> url, storage |-> <<>>]
        ELSE IF v.url.seedParam # <<>>
        THEN [seed |-> v.url.seedParam[1], position |-> <<>>,
              url |-> url, storage |-> <<>>]
        ELSE IF v.storage # <<>>
        THEN [seed |-> v.storage[1].seed, position |-> <<v.storage[1].position>>,
              url |-> url, storage |-> v.storage]
        ELSE [seed |-> r, position |-> <<>>, url |-> url, storage |-> <<>>]

\* initialPosition of the startup hook's result s
initialPosition(w, h, s) ==
    IF s.position # <<>> THEN s.position[1] ELSE startPosition(w, h, s.seed)

\* the page is loaded from url with the storage as it is: the pending calls
\* are gone with the page that made them
PageLoad(url, storage) ==
    \E r \in SessionRandoms :
        LET s == startup([url |-> url, storage |-> storage], r)
        IN  /\ view' = [NoView EXCEPT !.seed = s.seed, !.url = s.url,
                                      !.storage = s.storage,
                                      !.writable = view.writable,
                                      !.mock = view.mock,
                                      !.epoch = 1 - view.epoch]
            /\ maze' = mazeHook(dims[1], dims[2], s.seed)
            /\ pos' = initialPosition(dims[1], dims[2], s)
            /\ ticked' = FALSE
            /\ ctl' = AtRest
            /\ out' = NoCalls
            /\ UNCHANGED <<dims, gen>>

\* setForceReload: the startup hook runs again on the location url, the maze
\* hook when the seed has changed; useState(initialPosition) and the
\* controller's useRef(position.clone()) keep what they hold
ForcedReload(url) ==
    \E r \in SessionRandoms :
        LET s == startup([url |-> url, storage |-> view.storage], r)
        IN  /\ view' = [view EXCEPT !.seed = s.seed, !.url = s.url,
                                    !.storage = s.storage]
            /\ maze' = IF s.seed = view.seed THEN maze
                       ELSE mazeHook(dims[1], dims[2], s.seed)
            /\ out' = NoCalls
            /\ UNCHANGED <<dims, gen, pos, ticked, ctl>>

\* the location's hash becomes hash (<<>>: none) and the hashchange handler
\* runs
HashChange(hash) ==
    /\ hash # view.url.hash
    /\ ForcedReload([view.url EXCEPT !.hash = hash])

\* window.loadState(arg); arg is <<>> when it is called without a hash
LoadState(arg) ==
    LET hashToLoad == IF arg # <<>> THEN arg ELSE view.url.hash
    IN  IF hashToLoad = <<>>
        THEN /\ out' = NoCalls
             /\ UNCHANGED <<dims, gen, maze, pos, ticked, ctl, view>>
        ELSE IF validHash(hashToLoad[1])
        THEN ForcedReload(view.url)
        ELSE ForcedReload([view.url EXCEPT !.hash = <<>>])

\* the most door API calls pending at a time
MaxCalls == 2

\* handleDoorCollision behind a guard: nothing while a call is pending
handleDoorCollisionGuarded(v, p, fails) ==
    LET mazeData == [seed |-> v.seed, position |-> p, rotation |-> Idle]
    IN  IF v.calls # <<>>
        THEN v
        ELSE IF v.writable
        THEN [v EXCEPT !.storage = <<mazeData>>,
                       !.calls = Append(v.calls, [data |-> mazeData, fails |-> fails])]
        ELSE [v EXCEPT !.logged = TRUE]

\* handleDoorCollision up to its await: mazeData is stored and the API call
\* started; fails is whether the API is going to fail the call.  When
\* localStorage.setItem throws, the handler's catch logs it and there is no
\* call
handleDoorCollision(v, p, fails) ==
    LET mazeData == [seed |-> v.seed, position |-> p, rotation |-> Idle]
    IN  IF v.writable
        THEN [v EXCEPT !.storage = <<mazeData>>,
                       !.calls = Append(v.calls, [data |-> mazeData, fails |-> fails])]
        ELSE [v EXCEPT !.logged = TRUE]

\* the velocities of the application's frames: at rest or towards the
\* outer wall at x = 0
WalkVelocities == {v \in Velocities : v[2] = 0 /\ v[1] \in {0 - 7, 0}}

\* useFrame in the application when no door is met
WalkFrame(v) ==
    /\ controllerFrame(RestDelta, v, FALSE)
    /\ UNCHANGED <<dims, gen, maze, view>>

\* useFrame in the application when a door is met while moving:
\* onDoorCollision is handleDoorCollision.  The mock API fails no call
DoorFrame(v, fails) ==
    /\ v # <<0, 0>>
    /\ view.mock => ~fails
    /\ Len(view.calls) < MaxCalls
    /\ controllerFrame(RestDelta, v, TRUE)
    /\ view' = handleDoorCollision(view, pos, fails)
    /\ UNCHANGED <<dims, gen, maze>>

\* without the k-th element
Without(seq, k) == SubSeq(seq, 1, k - 1) \o SubSeq(seq, k + 1, Len(seq))

\* where the real API's answer can send the browser, as far as it is this
\* application
RedirectUrls == {BaseUrl, [BaseUrl EXCEPT !.seedParam = <<42>>]}

\* the k-th pending call has returned a URL and window.location.href is set
\* to it: the mock's is the current URL without search and hash, and its
\* calls return in the order they were made (each after 500 ms)
ApiResolved(k, target) ==
    /\ k \in 1..Len(view.calls)
    /\ ~view.calls[k].fails
    /\ view.mock => k = 1 /\ target = BaseUrl
    /\ PageLoad(target, view.storage)

\* ApiFailed whose catch sends the browser to the base URL
ApiFailedRedirects(k) ==
    /\ k \in 1..Len(view.calls)
    /\ view.calls[k].fails
    /\ PageLoad(BaseUrl, view.storage)

\* the k-th pending call has failed (fetch rejected, the response not ok, or
\* its body no JSON): the handler's catch logs it
ApiFailed(k) ==
    /\ k \in 1..Len(view.calls)
    /\ view.calls[k].fails
    /\ view' = [view EXCEPT !.calls = Without(view.calls, k), !.logged = TRUE]
    /\ out' = NoCalls
    /\ UNCHANGED <<dims, gen, maze, pos, ticked, ctl>>

SessionUrls ==
    {BaseUrl, [BaseUrl EXCEPT !.seedParam = <<42>>],
     [BaseUrl EXCEPT !.hash = <<GoodHash>>]}

InitSession ==
    /\ dims = <<MoveDim, MoveDim>>
    /\ gen = [i \in Instances |-> NoGenerator]
    /\ ticked = FALSE
    /\ ctl = AtRest
    /\ out = NoCalls
    /\ \E url \in SessionUrls, mock \in BOOLEAN, writable \in BOOLEAN,
          r \in SessionRandoms :
          LET s == startup([url |-> url, storage |-> <<>>], r)
          IN  /\ view = [NoView EXCEPT !.seed = s.seed, !.url = s.url,
                                       !.storage = s.storage, !.mock = mock,
                                       !.writable = writable]
              /\ maze = mazeHook(dims[1], dims[2], s.seed)
              /\ pos = initialPosition(dims[1], dims[2], s)

NextSession ==
    \/ KeyDown("KeyW")
    \/ KeyUp("KeyW")
    \/ \E v \in WalkVelocities : WalkFrame(v)
    \/ \E v \in WalkVelocities, fails \in BOOLEAN : DoorFrame(v, fails)
    \/ \E k \in 1..MaxCalls, target \in RedirectUrls : ApiResolved(k, target)
    \/ \E k \in 1..MaxCalls : ApiFailed(k)
    \/ \E h \in HashStates : HashChange(<<h>>)
    \/ HashChange(<<>>)
    \/ \E h \in HashStates : LoadState(<<h>>)
    \/ LoadState(<<>>)

SpecSession == InitSession /\ [][NextSession]_vars

(***************************************************************************)
(* Vocabulary of the generator's properties.                               *)
(***************************************************************************)
Valid(g) == g.width >= 1 /\ g.height >= 1

\* the cells next to c across a boundary that is open on both of its sides
\* (a relation that is symmetric by its form)
PassagesOf(grid, c) ==
    {b \in {<<c[1] + 1, c[2]>>, <<c[1] - 1, c[2]>>,
            <<c[1], c[2] + 1>>, <<c[1], c[2] - 1>>} \cap DOMAIN grid :
        \/ b[1] = c[1] + 1 /\ ~grid[c].east /\ ~grid[b].west
        \/ b[1] = c[1] - 1 /\ ~grid[c].west /\ ~grid[b].east
        \/ b[2] = c[2] + 1 /\ ~grid[c].south /\ ~grid[b].north
        \/ b[2] = c[2] - 1 /\ ~grid[c].north /\ ~grid[b].south}

Passage(grid, a, b) == b \in PassagesOf(grid, a)

\* the cells reachable through passages from the cells of seen, of which
\* those of frontier have not been expanded yet
RECURSIVE ReachFrom(_, _, _)
ReachFrom(grid, seen, frontier) ==
    LET new == (UNION {PassagesOf(grid, c) : c \in frontier}) \ seen
    IN  IF new = {} THEN seen ELSE ReachFrom(grid, seen \cup new, new)

\* every cell reachable from every other: the relation being symmetric, all
\* cells are reachable from cell (0, 0)
Connected(grid) ==
    <<0, 0>> \in DOMAIN grid
    /\ ReachFrom(grid, {<<0, 0>>}, {<<0, 0>>}) = DOMAIN grid

\* what is left after cells with at most one passage into the rest are taken
\* away again and again: empty exactly when the passages hold no cycle
RECURSIVE Core(_, _)
Core(grid, S) ==
    LET leaves == {c \in S : Cardinality(PassagesOf(grid, c) \cap S) <= 1}
    IN  IF leaves = {} THEN S ELSE Core(grid, S \ leaves)

Acyclic(grid) == Core(grid, DOMAIN grid) = {}

\* the shared walls that are gone, each counted once, from either side
RemovedWalls(g) ==
    Cardinality({c \in DOMAIN g.grid :
                   c[1] < g.width - 1
                   /\ (~g.grid[c].east \/ ~g.grid[<<c[1] + 1, c[2]>>].west)})
    + Cardinality({c \in DOMAIN g.grid :
                   c[2] < g.height - 1
                   /\ (~g.grid[c].south \/ ~g.grid[<<c[1], c[2] + 1>>].north)})

AllVisited(g) == \A c \in DOMAIN g.grid : g.grid[c].visited

(***************************************************************************)
(* C1.  Two instances with the same stored seed, width and height that     *)
(* have both run generate() and then getStartPosition() hold the same wall *)
(* flags in every cell and returned the same start position.               *)
(***************************************************************************)
C1_Deterministic ==
    \A i, j \in Instances :
        (/\ gen[i].start # <<>> /\ gen[j].start # <<>>
         /\ gen[i].seed = gen[j].seed
         /\ gen[i].width = gen[j].width /\ gen[i].height = gen[j].height)
        => (gen[i].grid = gen[j].grid /\ gen[i].start = gen[j].start)

\* both runs are over, on a maze with interior cells, one instance seeded by
\* its argument and the other by a drawn seed of the same value
C1_Witness ==
    /\ gen[1].start # <<>> /\ gen[2].start # <<>>
    /\ gen[1].seed = gen[2].seed
    /\ gen[1].seedArg = <<42>> /\ gen[2].seedArg = <<>>
    /\ gen[1].width >= 3 /\ gen[1].height >= 3
    /\ gen[1].start # <<2, 2>>

(***************************************************************************)
(* C2.  When generate() has returned on a grid of width >= 1 and           *)
(* height >= 1, the passages form a spanning tree: every cell is reachable *)
(* from every other one and the passages hold no cycle.                    *)
(***************************************************************************)
C2_SpanningTree ==
    \A i \in Instances :
        (gen[i].phase = "generated" /\ Valid(gen[i]))
        => (Connected(gen[i].grid) /\ Acyclic(gen[i].grid))

\* a generated maze that needed backtracking: some cell has three passages
C2_Witness ==
    \E i \in Instances :
        /\ gen[i].phase = "generated"
        /\ gen[i].width >= 3 /\ gen[i].height >= 3
        /\ \E c \in DOMAIN gen[i].grid : wallCount(gen[i].grid[c]) <= 1

(***************************************************************************)
(* C3.  When generate() has returned on a width x height grid, exactly     *)
(* width * height - 1 shared walls are removed (24 on the 5 x 5 grid of    *)
(* seed 42).                                                               *)
(***************************************************************************)
C3_RemovedWallCount ==
    \A i \in Instances :
        (gen[i].phase = "generated" /\ Valid(gen[i]))
        => RemovedWalls(gen[i]) = gen[i].width * gen[i].height - 1

\* the 5 x 5 maze of seed 42, with its 24 removed walls
C3_Witness ==
    \E i \in Instances :
        /\ gen[i].phase = "generated"
        /\ gen[i].seed = 42 /\ gen[i].width = 5 /\ gen[i].height = 5
        /\ RemovedWalls(gen[i]) = 24

(***************************************************************************)
(* C4.  In every state during and after generate(), the two flags of every *)
(* shared boundary agree: A.east = B.west for B immediately east of A and  *)
(* A.south = B.north for B immediately south of A.                         *)
(***************************************************************************)
C4_WallSymmetry ==
    \A i \in Instances : \A c \in DOMAIN gen[i].grid :
        /\ c[1] < gen[i].width - 1
              => gen[i].grid[c].east = gen[i].grid[<<c[1] + 1, c[2]>>].west
        /\ c[2] < gen[i].height - 1
              => gen[i].grid[c].south = gen[i].grid[<<c[1], c[2] + 1>>].north

\* in the middle of generate(): the last step carved westwards or northwards
\* (the neighbour's east or south flag had to follow), cells are still unvisited
C4_Witness ==
    \E i \in Instances :
        /\ gen[i].phase = "generating"
        /\ ~AllVisited(gen[i])
        /\ Len(gen[i].stack) > 0
        /\ LET prev == gen[i].stack[Len(gen[i].stack)]
           IN  /\ Passage(gen[i].grid, gen[i].cur, prev)
               /\ (prev[1] > gen[i].cur[1] \/ prev[2] > gen[i].cur[2])

(***************************************************************************)
(* C5.  generate() terminates on every grid of width >= 1 and height >= 1: *)
(* once in its loop it reaches the exit, where the current cell has no     *)
(* unvisited neighbour and the stack is empty, and every cell is visited   *)
(* there.                                                                  *)
(***************************************************************************)
AtExit(g) ==
    /\ g.phase = "generated"
    /\ Len(getNeighbors(g, g.cur)) = 0
    /\ Len(g.stack) = 0
    /\ AllVisited(g)

C5_GenerateTerminates ==
    /\ (gen[1].phase = "generating") ~> AtExit(gen[1])
    /\ [](gen[1].phase = "generated" => AtExit(gen[1]))

\* generate() has returned on the largest grid, after backtracking
C5_Witness ==
    \E i \in Instances :
        /\ AtExit(gen[i])
        /\ gen[i].width = MaxDim /\ gen[i].height = MaxDim
        /\ gen[i].cur = <<0, 0>>

(***************************************************************************)
(* C6 (as claimed).  A generator with width <= 0 or height <= 0 is never   *)
(* created, and generate() is never reached with such dimensions.          *)
(***************************************************************************)
C6_InvalidDimensionsRejected ==
    \A i \in Instances :
        /\ gen[i].phase # "none" => Valid(gen[i])
        /\ gen[i].phase # "threw"

(***************************************************************************)
(* C7 (as claimed).  A generator constructed with an explicit seed stores  *)
(* exactly that seed and seeds its stream from it.                         *)
(***************************************************************************)
C7_ExplicitSeedStored ==
    \A i \in Instances :
        (gen[i].phase = "constructed" /\ gen[i].seedArg # <<>>)
        => (/\ gen[i].seed = gen[i].seedArg[1]
            /\ gen[i].rng = seededRandom(gen[i].seedArg[1]))

(***************************************************************************)
(* C8.  Every value the seeded stream returns is in [0, 1): its numerator  *)
(* is in 0 .. 2^32 - 1, so the index Math.floor(r * n) is in 0 .. n - 1,   *)
(* for negative seeds too.                                                 *)
(***************************************************************************)
C8_DrawInUnitInterval ==
    \A i \in Instances :
        /\ gen[i].num[1] \in 0..(Half - 1)
        /\ gen[i].num[2] \in 0..(Half - 1)
        /\ gen[i].idx \in 0..(gen[i].n - 1)
        /\ gen[i].phase = "threw" => ~Valid(gen[i])

\* a negative seed, and a draw whose 32-bit sum had its sign bit set, scaled
\* to the last index of two or more neighbours
C8_Witness ==
    \E i \in Instances :
        /\ gen[i].seed < 0
        /\ gen[i].draws > 0
        /\ gen[i].num[1] >= 32768
        /\ gen[i].n >= 2
        /\ gen[i].idx = gen[i].n - 1

(***************************************************************************)
(* Vocabulary of the movement properties.                                  *)
(***************************************************************************)
CellOf(p) == <<p.x \div CellSize, p.z \div CellSize>>

InsideGrid(p) ==
    /\ CellOf(p)[1] >= 0 /\ CellOf(p)[1] < dims[1]
    /\ CellOf(p)[2] >= 0 /\ CellOf(p)[2] < dims[2]

LocalX(p) == p.x - CellOf(p)[1] * CellSize
LocalZ(p) == p.z - CellOf(p)[2] * CellSize

(***************************************************************************)
(* C9.  A frame that starts with the player's position in a cell of the    *)
(* grid ends with it in a cell of the grid, whatever the velocity.         *)
(***************************************************************************)
C9_StaysInsideGrid == [][InsideGrid(pos) => InsideGrid(pos')]_vars

\* frames have brought the player as far into the last cell's south-east
\* corner as the walls allow
C9_Witness ==
    /\ ticked
    /\ pos.x = dims[1] * CellSize - Buffer
    /\ pos.z = dims[2] * CellSize - Buffer
    /\ dims[1] > 1 /\ dims[2] > 1

(***************************************************************************)
(* C10 (as claimed).  The player stands in a cell whose north wall is      *)
(* present and the frame's step would bring the local Z offset below the   *)
(* buffer on the north edge: the Z move is rejected, and the X move of the *)
(* same step is committed when its candidate is unobstructed.              *)
(***************************************************************************)
C10_NorthWallBlocksZ ==
    [][\A v \in Velocities :
          (/\ FrameMove(v)
           /\ InsideGrid(pos)
           /\ maze[CellOf(pos)].north
           /\ LocalZ(pos) + v[2] < Buffer)
          => (/\ pos'.z = pos.z
              /\ ~checkCollision([pos EXCEPT !.x = pos.x + v[1]])
                    => pos'.x = pos.x + v[1])]_vars

(***************************************************************************)
(* C11 (as claimed).  Cell (2, 2) has the walls north and east and not     *)
(* south and west, the grid's walls are symmetric, the player stands at    *)
(* the local offset (2.0, 0.1) of that cell and the frame's delta is       *)
(* (0, -0.5): the Z move is rejected (z is unchanged) and x is unaffected. *)
(***************************************************************************)
C11_ScenarioZRejected ==
    [][(/\ FrameMove(<<0, 0 - 5>>)
        /\ maze[ScenarioCell] = [NewCell EXCEPT !.south = FALSE, !.west = FALSE,
                                                !.visited = TRUE]
        /\ maze[<<2, 1>>].south = maze[ScenarioCell].north
        /\ CellOf(pos) = ScenarioCell
        /\ LocalX(pos) = 20 /\ LocalZ(pos) = 1)
       => (pos'.z = pos.z /\ pos'.x = pos.x)]_vars

(***************************************************************************)
(* Vocabulary of the properties of one step: what the next frame would do  *)
(* from the position the player is in, for each velocity.                  *)
(***************************************************************************)
Outcomes == {[v |-> v, to |-> resolveMove(pos, v)] : v \in Velocities}

XAccepted(o) == o.to.x = pos.x + o.v[1]
ZAccepted(o) == o.to.z = pos.z + o.v[2]

(***************************************************************************)
(* C12 (as claimed).  Whether a step's Z move is accepted depends only on  *)
(* the position before the step and the Z component of the delta: two      *)
(* steps from the player's position (taken in the grid and clear of the    *)
(* walls) with the same Z component have their Z moves accepted alike,     *)
(* whatever their X components.  Likewise for the X move and the Z         *)
(* component.                                                              *)
(***************************************************************************)
C12_AxesIndependent ==
    (InsideGrid(pos) /\ ~checkCollision(pos)) =>
        LET os == Outcomes
        IN  \A a, b \in os :
               /\ (a.v[2] = b.v[2] /\ a.v[2] # 0)
                     => (ZAccepted(a) <=> ZAccepted(b))
               /\ (a.v[1] = b.v[1] /\ a.v[1] # 0)
                     => (XAccepted(a) <=> XAccepted(b))

(***************************************************************************)
(* C12 (amended).  Whether a step's X move is accepted depends only on the *)
(* position before the step and the X component of the delta.  Whether its *)
(* Z move is accepted depends only on the Z component and on the position  *)
(* the X test-and-commit left (the old position, with x replaced when the  *)
(* X move was accepted): two steps with the same Z component that leave    *)
(* the same x have their Z moves accepted alike.                           *)
(***************************************************************************)
C12_ZDependsOnCommittedX ==
    LET os == Outcomes
    IN  \A a, b \in os :
           /\ (a.v[2] = b.v[2] /\ a.v[2] # 0 /\ a.to.x = b.to.x)
                 => (ZAccepted(a) <=> ZAccepted(b))
           /\ (a.v[1] = b.v[1] /\ a.v[1] # 0)
                 => (XAccepted(a) <=> XAccepted(b))

\* frames have brought the player to a place in the grid from where two
\* steps with the same Z component and different X components both have
\* their X move rejected, and their Z move accepted
C12_Witness ==
    /\ ticked /\ out.position
    /\ InsideGrid(pos)
    /\ \E v, w \in Velocities :
          /\ v[1] # w[1] /\ v[1] # 0 /\ w[1] # 0
          /\ v[2] = w[2] /\ v[2] # 0
          /\ resolveMove(pos, v).x = pos.x
          /\ resolveMove(pos, w).x = pos.x
          /\ resolveMove(pos, v).z = pos.z + v[2]
          /\ resolveMove(pos, w).z = pos.z + w[2]

(***************************************************************************)
(* C13.  Movement resolution is total and all-or-nothing on each axis:     *)
(* from every position and for every delta, the step leaves x at the old x *)
(* or at the old x plus the delta's x, z at the old z or at the old z plus *)
(* the delta's z, and y as it was; an axis whose candidate collides or     *)
(* lies outside the grid keeps its coordinate, and nothing is raised.      *)
(***************************************************************************)
C13_AllOrNothing ==
    \A o \in Outcomes :
        /\ o.to.x \in {pos.x, pos.x + o.v[1]}
        /\ o.to.z \in {pos.z, pos.z + o.v[2]}
        /\ o.to.y = pos.y
        /\ checkCollision([pos EXCEPT !.x = pos.x + o.v[1]]) => o.to.x = pos.x
        /\ checkCollision([x |-> o.to.x, y |-> pos.y, z |-> pos.z + o.v[2]])
              => o.to.z = pos.z

\* frames have moved the player to a place from where one step has only its
\* X move accepted, another only its Z move, another neither and another both
C13_Witness ==
    /\ ticked /\ out.position
    /\ \E a, b, c, d \in Outcomes :
          /\ \A o \in {a, b, c, d} : o.v[1] # 0 /\ o.v[2] # 0
          /\ XAccepted(a) /\ ~ZAccepted(a)
          /\ ~XAccepted(b) /\ ZAccepted(b)
          /\ ~XAccepted(c) /\ ~ZAccepted(c)
          /\ XAccepted(d) /\ ZAccepted(d)

(***************************************************************************)
(* Vocabulary of the frame's door check.                                   *)
(***************************************************************************)
KeyHeld(c) == c.forward \/ c.backward \/ c.left \/ c.right

(***************************************************************************)
(* C14 (as claimed).  In a frame where a movement key is held and a door   *)
(* lies within 1.0 along the camera's ray, onDoorCollision is called, the  *)
(* position is not changed and onPositionChange is not called.             *)
(***************************************************************************)
C14_KeyHeldDoorAbandons ==
    [][(KeyHeld(ctl) /\ FrameDoor)
       => (out'.door /\ pos' = pos /\ ~out'.position)]_vars

(***************************************************************************)
(* C14 (amended).  In a frame where the held movement keys give a velocity *)
(* that is not zero (forward does not cancel backward, or left right) and  *)
(* the ray cast from the camera into its parent meets a door within 1.0,   *)
(* onDoorCollision is called, the position is not changed and             *)
(* onPositionChange is not called.                                         *)
(***************************************************************************)
C14_MovingDoorAbandons ==
    [][(hasVelocity(ctl) /\ FrameDoor)
       => (out'.door /\ pos' = pos /\ ~out'.position)]_vars

\* the player has walked out of the cell of the start and the last frame met
\* a door there
C14_Witness ==
    /\ ticked
    /\ hasVelocity(ctl)
    /\ out.door /\ ~out.position
    /\ InsideGrid(pos) /\ CellOf(pos) # ScenarioCell

(***************************************************************************)
(* Vocabulary of the door properties: the door placement as the            *)
(* specification words it, from the list of the walls that are present.    *)
(***************************************************************************)
WallOrder == <<"north", "south", "east", "west">>

\* the k-th wall flag in the order x ascending, z ascending within x, and
\* north, south, east, west within the cell
FlagAt(k, h) ==
    LET cellNo == (k - 1) \div 4
    IN  <<cellNo \div h, cellNo % h, WallOrder[((k - 1) % 4) + 1]>>

PresentWalls(grid, w, h) ==
    LET present(k) == grid[<<FlagAt(k, h)[1], FlagAt(k, h)[2]>>][FlagAt(k, h)[3]]
    IN  SelectSeq([k \in 1..(w * h * 4) |-> k], present)

\* the numerators of the first n values of a stream
RECURSIVE Draws(_, _)
Draws(rng, n) ==
    IF n = 0 THEN <<>> ELSE <<randomResult(rng)>> \o Draws(randomStep(rng), n - 1)

ExpectedDoors(grid, w, h, seed) ==
    LET walls == PresentWalls(grid, w, h)
        nums  == Draws(seededRandom(seed), Len(walls))
    IN  {FlagAt(walls[j], h) : j \in {i \in 1..Len(walls) : belowTenth(nums[i])}}

(***************************************************************************)
(* C15.  For the same grid and the same seed, the doors Maze3D builds and  *)
(* the doors printMazeASCII rebuilds are the same set, and each of the two *)
(* yields the set it yielded before when it is run again.                  *)
(***************************************************************************)
C15_SameDoorSets ==
    /\ [](view.scene.built /\ view.ascii.built
             => view.scene.doors = view.ascii.doors)
    /\ [][/\ (view.scene.built /\ BuildScene)
                => view'.scene.doors = view.scene.doors
          /\ (view.ascii.built /\ PrintAscii)
                => view'.ascii.doors = view.ascii.doors]_vars

\* both have run on a grid with interior cells, where some walls bear a door
\* and some do not
C15_Witness ==
    /\ view.scene.built /\ view.ascii.built
    /\ dims[1] >= 3 /\ dims[2] >= 3
    /\ Cardinality(view.ascii.doors) >= 2
    /\ Cardinality(view.ascii.doors) < view.ascii.draws

(***************************************************************************)
(* C16.  Maze3D's door placement starts from a fresh stream seeded with    *)
(* the seed it is given and visits the cells with x ascending and, within  *)
(* x, z ascending, and each cell's walls in the order north, south, east,  *)
(* west; it takes exactly one draw for each wall flag that is present and  *)
(* none for an absent one, and the wall bears a door exactly when its draw *)
(* is below 0.10.  How far the generator's own stream has been consumed    *)
(* makes no difference.                                                    *)
(***************************************************************************)
C16_DoorPlacementOrder ==
    view.scene.built =>
        /\ view.scene.draws = Len(PresentWalls(maze, dims[1], dims[2]))
        /\ view.scene.doors = ExpectedDoors(maze, dims[1], dims[2], view.seed)

\* Maze3D has run after the generator's stream went on to the start
\* position's draw, on a grid where the fifth draw or a later one gave a door
C16_Witness ==
    /\ view.scene.built
    /\ gen[1].start # <<>> /\ gen[1].start # <<2, 2>>
    /\ view.seed # 0
    /\ \E d \in view.scene.doors : d[1] >= 1 /\ d[3] \in {"south", "east"}
    /\ Cardinality(view.scene.doors) < view.scene.draws

(***************************************************************************)
(* C17 (as claimed).  On a grid of width 0 or height 0, Maze3D and         *)
(* printMazeASCII both end with an empty door set and without raising.     *)
(***************************************************************************)
C17_ZeroAreaNoError ==
    (dims[1] = 0 \/ dims[2] = 0) =>
        /\ view.scene.built => (view.scene.doors = {} /\ ~view.scene.raised)
        /\ view.ascii.built => (view.ascii.doors = {} /\ ~view.ascii.raised)

(***************************************************************************)
(* C18 (as claimed).  On a generated maze of width >= 3 and height >= 3,   *)
(* what getStartPosition() returns is the world-space centre               *)
(* (cx*4 + 2, cz*4 + 2) of an interior cell, 1 <= cx <= width - 2 and      *)
(* 1 <= cz <= height - 2, also when no interior cell has at most 2 walls   *)
(* and the fallback branch is taken.                                       *)
(***************************************************************************)
C18_StartInterior ==
    \A i \in Instances :
        (gen[i].phase = "generated" /\ gen[i].start # <<>>
           /\ gen[i].width >= 3 /\ gen[i].height >= 3)
        => \E cx \in 1..(gen[i].width - 2), cz \in 1..(gen[i].height - 2) :
              gen[i].start = cellCentre(<<cx, cz>>)

(***************************************************************************)
(* C19.  A frame that begins with leveling active leaves the yaw as it     *)
(* was, also with ArrowLeft or ArrowRight held; a frame changes the yaw    *)
(* only when it begins with leveling inactive and a turn key held.         *)
(***************************************************************************)
C19_NoKeyTurnWhileLeveling ==
    [][FrameLook =>
         /\ ctl.isLeveling => ctl'.yaw = ctl.yaw
         /\ ctl'.yaw # ctl.yaw =>
               (~ctl.isLeveling /\ (ctl.rotateLeft \/ ctl.rotateRight))]_vars

\* the last handler was a frame that began and ended with leveling active
\* and with exactly one turn key held
C19_Witness ==
    /\ out.position
    /\ ctl.isLeveling
    /\ ctl.rotateLeft /\ ~ctl.rotateRight
    /\ ctl.pitch # 0

(***************************************************************************)
(* C20 (as claimed).  Leveling becomes active exactly when pointer lock    *)
(* goes from held to released.  A frame that begins with leveling active   *)
(* moves the pitch towards 0 by at most 2.0 * delta, never past 0, and     *)
(* ends leveling only with the pitch at exactly 0 after it was within 0.01 *)
(* of 0.  With frames occurring again and again, leveling once active      *)
(* eventually ends with the pitch at 0, also when pointer lock is taken    *)
(* again and the mouse moves while leveling is active.                     *)
(***************************************************************************)
C20_LevelingEnds ==
    /\ [][(~ctl.isLeveling /\ ctl'.isLeveling)
             <=> (~ctl.isLeveling /\ ctl.isPointerLocked
                    /\ ~ctl'.isPointerLocked)]_vars
    /\ [][\A dt \in Deltas :
            (ctl.isLeveling /\ Frame(dt, <<0, 0>>, FALSE)) =>
               /\ Abs(ctl'.pitch - ctl.pitch) <= LevelingSpeed * dt
               /\ Abs(ctl'.pitch) <= Abs(ctl.pitch)
               /\ ctl'.pitch * ctl.pitch >= 0
               /\ ~ctl'.isLeveling =>
                     (ctl'.pitch = 0 /\ Abs(ctl.pitch) < SnapBelow)]_vars
    /\ ctl.isLeveling ~> (~ctl.isLeveling /\ ctl.pitch = 0)

(***************************************************************************)
(* C28.  generate() never removes an outward-facing wall: in every state   *)
(* during and after generation every cell with x = 0 has its west wall,    *)
(* every cell with x = width - 1 its east wall, every cell with z = 0 its  *)
(* north wall and every cell with z = height - 1 its south wall.           *)
(***************************************************************************)
C28_OuterWallsKept ==
    \A i \in Instances : \A c \in DOMAIN gen[i].grid :
        /\ c[1] = 0 => gen[i].grid[c].west
        /\ c[1] = gen[i].width - 1 => gen[i].grid[c].east
        /\ c[2] = 0 => gen[i].grid[c].north
        /\ c[2] = gen[i].height - 1 => gen[i].grid[c].south

\* in the middle of generate(): the loop has just carved into the corner
\* opposite to the first cell, which has lost one of its inward walls
C28_Witness ==
    \E i \in Instances :
        /\ gen[i].phase = "generating"
        /\ gen[i].width >= 3 /\ gen[i].height >= 3
        /\ gen[i].cur = <<gen[i].width - 1, gen[i].height - 1>>
        /\ wallCount(gen[i].grid[gen[i].cur]) = 3
        /\ ~AllVisited(gen[i])

(***************************************************************************)
(* C29.  At every iteration of the loop of generate() (and when it has     *)
(* returned) the removed walls form a tree that spans exactly the visited  *)
(* cells: the removed walls are one fewer than the visited cells, the      *)
(* cells reachable from (0, 0) through removed walls are the visited ones, *)
(* and every cell on the backtrack stack is visited.                       *)
(***************************************************************************)
VisitedCells(g) == {c \in DOMAIN g.grid : g.grid[c].visited}

C29_TreeOverVisited ==
    \A i \in Instances :
        gen[i].phase \in {"generating", "generated"} =>
            /\ RemovedWalls(gen[i]) = Cardinality(VisitedCells(gen[i])) - 1
            /\ ReachFrom(gen[i].grid, {<<0, 0>>}, {<<0, 0>>})
                  = VisitedCells(gen[i])
            /\ \A k \in 1..Len(gen[i].stack) :
                  gen[i].stack[k] \in VisitedCells(gen[i])

\* in the middle of generate(), after the loop has backtracked: the stack is
\* shorter than the path of visited cells, and cells are still unvisited
C29_Witness ==
    \E i \in Instances :
        /\ gen[i].phase = "generating"
        /\ ~AllVisited(gen[i])
        /\ Len(gen[i].stack) >= 2
        /\ Len(gen[i].stack) + 2 <= Cardinality(VisitedCells(gen[i]))
        /\ Len(getNeighbors(gen[i], gen[i].cur)) > 0

(***************************************************************************)
(* Vocabulary of the start position's property.                            *)
(***************************************************************************)
InteriorCells(g) == (1..(g.width - 2)) \X (1..(g.height - 2))

\* the interior cells with the fewest walls of all interior cells
MostOpen(g) ==
    {c \in InteriorCells(g) :
        \A d \in InteriorCells(g) : wallCount(g.grid[c]) <= wallCount(g.grid[d])}

\* c comes before d in the scan, x ascending and then z ascending
ScanBefore(c, d) == c[1] < d[1] \/ (c[1] = d[1] /\ c[2] < d[2])

\* the numerator of the n-th value of the stream seeded with seed
NthDraw(seed, n) == Draws(seededRandom(seed), n)[n]

(***************************************************************************)
(* C25.  When some interior cell has at most 2 walls, getStartPosition()   *)
(* returns the centre of the interior cell that stands at index            *)
(* floor(r * k), in scan order (x ascending, then z ascending), among the  *)
(* k interior cells of least wall count, r being the value of the          *)
(* generator's own stream that follows the draws generate() took; the call *)
(* takes exactly that one draw.  The fallback branch takes none.           *)
(***************************************************************************)
C25_StartAmongMostOpen ==
    [][\A i \in Instances : GetStart(i) =>
         LET g == gen[i]
             S == MostOpen(g)
             r == NthDraw(g.seed, g.draws + 1)
         IN  IF \E c \in InteriorCells(g) : wallCount(g.grid[c]) <= 2
             THEN /\ \E c \in S :
                        /\ Cardinality({d \in S : ScanBefore(d, c)})
                              = FloorTimes(r, Cardinality(S))
                        /\ gen'[i].start = cellCentre(c)
                  /\ gen'[i].draws = g.draws + 1
                  /\ gen'[i].rng = randomStep(g.rng)
             ELSE /\ gen'[i].draws = g.draws
                  /\ gen'[i].rng = g.rng]_vars

\* getStartPosition() has chosen among several cells of least wall count, not
\* the first of them, while another interior cell had more walls than they
C25_Witness ==
    \E i \in Instances :
        /\ gen[i].start # <<>> /\ gen[i].start # <<2, 2>>
        /\ Cardinality(MostOpen(gen[i])) >= 2
        /\ gen[i].n = Cardinality(MostOpen(gen[i]))
        /\ gen[i].idx >= 1
        /\ InteriorCells(gen[i]) # MostOpen(gen[i])

(***************************************************************************)
(* C24 (as claimed).  For every integer seed that reaches the door         *)
(* placement, 0 included, the seeded stream is not constant, and it is     *)
(* never the case that every draw is below 0.10 and every present wall     *)
(* bears a door.                                                           *)
(***************************************************************************)
C24_StreamNotConstant ==
    (view.scene.built /\ view.scene.draws >= 4) =>
        /\ \E n \in 2..4 : NthDraw(view.seed, n) # NthDraw(view.seed, 1)
        /\ Cardinality(view.scene.doors) < view.scene.draws

(***************************************************************************)
(* Vocabulary of the wall crossings: the position between the two axis     *)
(* moves of an outcome, and a move along one axis that leaves the cell     *)
(* through a side whose wall is present.                                   *)
(***************************************************************************)
AfterX(o) == [pos EXCEPT !.x = o.to.x]

CrossesWallX(p, q) ==
    /\ InsideGrid(p) /\ InsideGrid(q)
    /\ \/ CellOf(q)[1] > CellOf(p)[1] /\ maze[CellOf(p)].east
       \/ CellOf(q)[1] < CellOf(p)[1] /\ maze[CellOf(p)].west

CrossesWallZ(p, q) ==
    /\ InsideGrid(p) /\ InsideGrid(q)
    /\ \/ CellOf(q)[2] > CellOf(p)[2] /\ maze[CellOf(p)].south
       \/ CellOf(q)[2] < CellOf(p)[2] /\ maze[CellOf(p)].north

C27_NonCollisionKept ==
    ~checkCollision(pos) => \A o \in Outcomes : ~checkCollision(o.to)

\* the player stands clear of the walls in a maze of several cells, and the
\* velocities of the next frame have all four fates: both moves committed,
\* X alone, Z alone, none
C27_Witness ==
    /\ ticked
    /\ dims[1] > 1 /\ dims[2] > 1
    /\ ~checkCollision(pos)
    /\ \E o \in Outcomes : o.v[1] # 0 /\ o.v[2] # 0
                           /\ XAccepted(o) /\ ZAccepted(o)
    /\ \E o \in Outcomes : o.v[1] # 0 /\ o.v[2] # 0
                           /\ XAccepted(o) /\ ~ZAccepted(o)
    /\ \E o \in Outcomes : o.v[1] # 0 /\ o.v[2] # 0
                           /\ ~XAccepted(o) /\ ZAccepted(o)
    /\ \E o \in Outcomes : o.v[1] # 0 /\ o.v[2] # 0
                           /\ ~XAccepted(o) /\ ~ZAccepted(o)

\* C30: a door frame while a call is pending (and the storage takes writes)
\* stores the state of that frame again and adds a call to the pending ones
C30_CollisionsWhilePending ==
    [][(out'.door /\ view.calls # <<>> /\ view.writable) =>
          /\ view'.storage =
                 <<[seed |-> view.seed, position |-> pos, rotation |-> Idle]>>
          /\ Len(view'.calls) = Len(view.calls) + 1
          /\ SubSeq(view'.calls, 1, Len(view.calls)) = view.calls]_vars

\* several calls are pending after a door frame, the storage holding the state
\* of the last
C30_Witness ==
    /\ Len(view.calls) >= 2
    /\ out.door
    /\ view.storage = <<view.calls[Len(view.calls)].data>>

\* C21: the browser is sent to another page only when a pending call succeeds;
\* a step that ends a call without that leaves seed, location, grid, player
\* and controller as they are, and frames stay enabled; and when a call is
\* started the storage holds the state of the frame that started it
C21_FailedCallLeavesSession ==
    [][/\ view'.epoch # view.epoch =>
              \E k \in 1..Len(view.calls) : ~view.calls[k].fails
       /\ (Len(view'.calls) < Len(view.calls) /\ view'.epoch = view.epoch) =>
              /\ view'.seed = view.seed
              /\ view'.url = view.url
              /\ view'.storage = view.storage
              /\ UNCHANGED <<maze, pos, ctl, ticked>>
              /\ ENABLED (\E v \in WalkVelocities : WalkFrame(v))
       /\ Len(view'.calls) > Len(view.calls) =>
              /\ view'.storage = <<view'.calls[Len(view'.calls)].data>>
              /\ view'.calls[Len(view'.calls)].data.seed = view.seed
              /\ view'.calls[Len(view'.calls)].data.position = pos]_vars

\* a call has failed (the storage takes writes, so the logged error is the
\* API's) and the last frame since moved the player
C21_Witness ==
    /\ view.logged
    /\ view.writable
    /\ out.position
    /\ view.storage # <<>>
    /\ pos # view.storage[1].position

\* C22: when a call of the mock API returns and the base URL is loaded, the
\* session starts with the seed and the player position of the door collision
\* that made the call
C22_RedirectRestoresCollisionState ==
    [][(view.mock /\ view'.epoch # view.epoch) =>
          /\ view'.seed = view.calls[1].data.seed
          /\ pos' = view.calls[1].data.position]_vars

\* C26: after loadState(h), or a hashchange to h, with h a state that passes
\* the validation, the seed and the player position are those of h
C26_LoadedStateTakesEffect ==
    [][\A h \in HashStates :
          (validHash(h) /\ (LoadState(<<h>>) \/ HashChange(<<h>>))) =>
              /\ view'.seed = h.seed
              /\ pos' = h.position]_vars

====
